---- MODULE Spec2Model ----
(***************************************************************************)
(* Model of redis_types: typed wrappers (ZSet, Set, Hash, List) over the   *)
(* collection types of a Redis server, with a pluggable encoder/decoder    *)
(* pair and version-gated sorted-set pops.                                 *)
(*                                                                         *)
(* Application values are the integers 1..MaxVal.  The wire form of a      *)
(* value under the JSON codec is the value shifted by Offset, which lies   *)
(* outside 1..MaxVal: the encoding is injective, is not the identity and   *)
(* keeps the byte order of the members.  None is 0.                        *)
(***************************************************************************)
EXTENDS Integers, Sequences, FiniteSets, TLC

\* ------------------------------------------------------------------ bounds
MaxVal == 3
MaxScore == 2
MaxCount == 3
MaxIdx == 1
MaxMap == 2
MaxList == 3
MaxIssued == 2
MaxField == 2
MaxInst == 2

Values == 1..MaxVal
Scores == 1..MaxScore
Offset == MaxVal
None == 0
Codecs == {"NoOp", "JSON"}
Versions == {<<4, 9, 9>>, <<5, 0, 0>>}

VARIABLES
    redis_client,    \* module global: None or a client handle
    initialized,     \* whether initialize was ever called
    default_codec,   \* RedisType.__encoder__ / __decoder__
    instances,       \* wrappers that were constructed
    issued,          \* number of commands sent through the global handle
    version,         \* redis_version of the server behind the handle
    codec,           \* the wrapper's _encoder / _decoder
    zset,            \* sorted set at the key: wire member -> score
    withscores,      \* ZSet.withscores
    sset,            \* set at the key: set of wire members
    hash,            \* hash at the key: field -> wire value
    list,            \* list at the key: sequence of wire values
    deque,           \* reference double-ended queue of application values
    pc,              \* per caller of ZSet.unshift: the statement it is at
    cnt,             \* per caller: the count argument
    front,           \* per caller: the local list `front`
    idx,             \* per caller: position of the for loop in `front`
    uret,            \* per caller: the value returned
    snap,            \* per caller: the sorted set as its range call saw it
    last             \* the last completed call: its arguments, result and prior state

regVars == <<redis_client, initialized, default_codec, instances, issued>>
srvVars == <<version, codec>>
zVars == <<zset, withscores>>
cVars == <<pc, cnt, front, idx, uret, snap>>
vars == <<redis_client, initialized, default_codec, instances, issued, version, codec,
          zset, withscores, sset, hash, list, deque,
          pc, cnt, front, idx, uret, snap, last>>

\* ------------------------------------------------------------------- codec
\* _NoOpEncoder.encode / json.JSONEncoder.encode
encode(c, v) == IF c = "NoOp" THEN v ELSE v + Offset

\* _NoOpDecoder.decode / json.JSONDecoder.decode on a well-formed wire value
decode(c, w) == IF c = "NoOp" THEN w ELSE w - Offset

\* json.JSONDecoder.decode raises on None (TypeError) and on text that is
\* not JSON (JSONDecodeError); the no-op decoder never raises
DecodeRaises(c, w) == c = "JSON" /\ w <= Offset

\* StrictVersion.__lt__: lexicographic comparison of (major, minor, patch)
VersionLess(a, b) ==
    \/ a[1] < b[1]
    \/ a[1] = b[1] /\ a[2] < b[2]
    \/ a[1] = b[1] /\ a[2] = b[2] /\ a[3] < b[3]

Card(z) == Cardinality(DOMAIN z)
Empty == [m \in {} |-> 0]
Min(a, b) == IF a < b THEN a ELSE b

\* ------------------------------------------------- sorted-set server side
\* order of a sorted set: score ascending, ties by member
ZLess(z, a, b) == z[a] < z[b] \/ (z[a] = z[b] /\ a < b)

zrank(z, m) == Cardinality({x \in DOMAIN z : ZLess(z, x, m)})

\* the (member, score) pairs in ascending order
ZSorted(z) ==
    [i \in 1..Card(z) |->
        LET m == CHOOSE x \in DOMAIN z : zrank(z, x) = i - 1 IN <<m, z[m]>>]

Reverse(s) == [i \in 1..Len(s) |-> s[Len(s) + 1 - i]]

\* index normalisation of ZRANGE / ZREVRANGE: negative indices count from
\* the end, the range is inclusive and clipped to the set
RangeOf(s, start, stop) ==
    LET n == Len(s)
        s1 == IF start < 0 THEN n + start ELSE start
        e1 == IF stop < 0 THEN n + stop ELSE stop
        s2 == IF s1 < 0 THEN 0 ELSE s1
        e2 == IF e1 >= n THEN n - 1 ELSE e1
    IN  IF s2 > e1 \/ s2 >= n THEN <<>> ELSE SubSeq(s, s2 + 1, e2 + 1)

Strip(ps, ws) == [i \in 1..Len(ps) |-> IF ws THEN ps[i] ELSE ps[i][1]]

zrange(z, start, stop, ws) == Strip(RangeOf(ZSorted(z), start, stop), ws)

zrevrange(z, start, stop, ws) == Strip(RangeOf(Reverse(ZSorted(z)), start, stop), ws)

zrem(z, w) == [m \in DOMAIN z \ {w} |-> z[m]]

zadd(z, mapping) ==
    [m \in DOMAIN z \cup DOMAIN mapping |->
        IF m \in DOMAIN mapping THEN mapping[m] ELSE z[m]]

RemoveMembers(z, ps) == [m \in DOMAIN z \ {ps[i][1] : i \in 1..Len(ps)} |-> z[m]]

\* ZPOPMIN key count: removes and returns up to count lowest pairs
zpopmin(z, count) ==
    LET ps == SubSeq(ZSorted(z), 1, Min(count, Card(z)))
    IN  [ret |-> ps, zset |-> RemoveMembers(z, ps)]

\* ZPOPMAX key count: removes and returns up to count highest pairs
zpopmax(z, count) ==
    LET ps == SubSeq(Reverse(ZSorted(z)), 1, Min(count, Card(z)))
    IN  [ret |-> ps, zset |-> RemoveMembers(z, ps)]

\* ------------------------------------------------------------ ZSet wrapper
DecodePairs(c, ps) == [i \in 1..Len(ps) |-> <<decode(c, ps[i][1]), ps[i][2]>>]

ZSet_range(z, c, inst, start, stop, ws) ==
    LET w == ws \/ inst
        raw == zrange(z, start, stop, w)
    IN  [scored |-> w,
         items |-> [i \in 1..Len(raw) |->
                      IF w THEN <<decode(c, raw[i][1]), raw[i][2]>>
                      ELSE decode(c, raw[i])]]

ZSet_revrange(z, c, inst, start, stop, ws) ==
    LET w == ws \/ inst
        raw == zrevrange(z, start, stop, w)
    IN  [scored |-> w,
         items |-> [i \in 1..Len(raw) |->
                      IF w THEN <<decode(c, raw[i][1]), raw[i][2]>>
                      ELSE decode(c, raw[i])]]

ZSet_front(z, c, inst, ws) ==
    LET ret == ZSet_range(z, c, inst, 0, 0, ws)
    IN  [scored |-> ret.scored, items |-> SubSeq(ret.items, 1, Min(1, Len(ret.items)))]

ZSet_back(z, c, inst, ws) ==
    LET ret == ZSet_range(z, c, inst, -1, -1, ws)
    IN  [scored |-> ret.scored, items |-> SubSeq(ret.items, 1, Min(1, Len(ret.items)))]

ZSet_remove_raw(z, c, member) == zrem(z, member)

ZSet_remove(z, c, member) == zrem(z, encode(c, member))

ZSet_add(z, c, mapping) ==
    zadd(z, [w \in {encode(c, k) : k \in DOMAIN mapping} |-> mapping[decode(c, w)]])

RECURSIVE RemoveEach(_, _, _, _)
RemoveEach(z, c, ps, i) ==
    IF i > Len(ps) THEN z
    ELSE RemoveEach(ZSet_remove(z, c, ps[i][1]), c, ps, i + 1)

ZSet_unshift_offbyone(z, c, inst, ver, count) ==
    IF VersionLess(ver, <<5, 0, 0>>)
    THEN LET fr == ZSet_range(z, c, inst, 0, count, TRUE).items
         IN  [ret |-> fr, zset |-> RemoveEach(z, c, fr, 1)]
    ELSE LET p == zpopmin(z, count)
         IN  [ret |-> DecodePairs(c, p.ret), zset |-> p.zset]

ZSet_unshift(z, c, inst, ver, count) ==
    IF VersionLess(ver, <<5, 0, 0>>)
    THEN LET fr == ZSet_range(z, c, inst, 0, count - 1, TRUE).items
         IN  [ret |-> fr, zset |-> RemoveEach(z, c, fr, 1)]
    ELSE LET p == zpopmin(z, count)
         IN  [ret |-> DecodePairs(c, p.ret), zset |-> p.zset]

ZSet_pop(z, c, inst, ver, count) ==
    IF VersionLess(ver, <<5, 0, 0>>)
    THEN LET bk == ZSet_revrange(z, c, inst, 0, count - 1, TRUE).items
         IN  [ret |-> bk, zset |-> RemoveEach(z, c, bk, 1)]
    ELSE LET p == zpopmax(z, count)
         IN  [ret |-> DecodePairs(c, p.ret), zset |-> p.zset]

\* ------------------------------------------------- idle parts of the state
Callers == {1, 2}
NoRec == [op |-> "none"]

RegIdle ==
    /\ redis_client = "client"
    /\ initialized = TRUE
    /\ default_codec = "NoOp"
    /\ instances = {}
    /\ issued = 0

ZIdle == zset = Empty /\ withscores = FALSE

CIdle ==
    /\ pc = [p \in Callers |-> "idle"]
    /\ front = [p \in Callers |-> <<>>]
    /\ idx = [p \in Callers |-> 1]
    /\ cnt = [p \in Callers |-> 0]
    /\ uret = [p \in Callers |-> <<>>]
    /\ snap = [p \in Callers |-> Empty]

OtherIdle == sset = {} /\ hash = Empty /\ list = <<>> /\ deque = <<>>

\* ----------------------------------------------- sorted set, one caller
Indices == (0 - MaxIdx)..MaxIdx
Counts == 0..MaxCount
Mappings ==
    UNION {[S -> Scores] : S \in {T \in SUBSET Values : T # {} /\ Cardinality(T) <= MaxMap}}

\* the one-member mappings add({m: s}); every content is reached through them
Singles == {mapping \in Mappings : Cardinality(DOMAIN mapping) = 1}

ZRec(op, args, ws, ret) ==
    [op |-> op, args |-> args, ws |-> ws, ret |-> ret, before |-> zset,
     inst |-> withscores, map |-> Empty, added |-> FALSE]

ZQuiet == UNCHANGED <<regVars, srvVars, sset, hash, list, deque, cVars>>

ZAdd(mapping) ==
    /\ zset' = ZSet_add(zset, codec, mapping)
    /\ last' = [ZRec("add", <<>>, FALSE, [scored |-> FALSE, items |-> <<>>])
                   EXCEPT !.map = mapping]
    /\ UNCHANGED withscores
    /\ ZQuiet

\* ZRemove records whether it directly follows add({member: s})
ZRemove(member) ==
    /\ zset' = ZSet_remove(zset, codec, member)
    /\ last' = [ZRec("remove", <<member>>, FALSE, [scored |-> FALSE, items |-> <<>>])
                   EXCEPT !.added = (last.op = "add" /\ DOMAIN last.map = {member}),
                          !.before = IF last.op = "add" /\ DOMAIN last.map = {member}
                                     THEN last.before ELSE zset]
    /\ UNCHANGED withscores
    /\ ZQuiet

ZUnshift(count) ==
    LET r == ZSet_unshift(zset, codec, withscores, version, count)
    IN  /\ zset' = r.zset
        /\ last' = ZRec("unshift", <<count>>, TRUE, [scored |-> TRUE, items |-> r.ret])
        /\ UNCHANGED withscores
        /\ ZQuiet

ZPop(count) ==
    LET r == ZSet_pop(zset, codec, withscores, version, count)
    IN  /\ zset' = r.zset
        /\ last' = ZRec("pop", <<count>>, TRUE, [scored |-> TRUE, items |-> r.ret])
        /\ UNCHANGED withscores
        /\ ZQuiet

ZRange(start, stop, ws) ==
    /\ last' = ZRec("range", <<start, stop>>, ws,
                    ZSet_range(zset, codec, withscores, start, stop, ws))
    /\ UNCHANGED zVars
    /\ ZQuiet

ZRevrange(start, stop, ws) ==
    /\ last' = ZRec("revrange", <<start, stop>>, ws,
                    ZSet_revrange(zset, codec, withscores, start, stop, ws))
    /\ UNCHANGED zVars
    /\ ZQuiet

ZFront(ws) ==
    /\ last' = ZRec("front", <<>>, ws, ZSet_front(zset, codec, withscores, ws))
    /\ UNCHANGED zVars
    /\ ZQuiet

ZBack(ws) ==
    /\ last' = ZRec("back", <<>>, ws, ZSet_back(zset, codec, withscores, ws))
    /\ UNCHANGED zVars
    /\ ZQuiet

\* zset.withscores = b
SetWithscores(b) ==
    /\ withscores # b
    /\ withscores' = b
    /\ last' = ZRec("withscores", <<>>, b, [scored |-> FALSE, items |-> <<>>])
    /\ UNCHANGED zset
    /\ ZQuiet

InitZSet ==
    /\ RegIdle /\ ZIdle /\ CIdle /\ OtherIdle
    /\ version \in Versions
    /\ codec \in Codecs
    /\ last = NoRec

NextZSet ==
    \/ \E mapping \in Singles : ZAdd(mapping)
    \/ \E member \in Values : ZRemove(member)
    \/ \E count \in Counts : ZUnshift(count)
    \/ \E count \in Counts : ZPop(count)
    \/ \E b \in BOOLEAN : SetWithscores(b)

SpecZSet == InitZSet /\ [][NextZSet]_vars

\* the reading methods of ZSet, on a set filled by add
NextZRead ==
    \/ \E mapping \in Mappings : ZAdd(mapping)
    \/ \E start \in Indices, stop \in Indices, ws \in BOOLEAN : ZRange(start, stop, ws)
    \/ \E start \in Indices, stop \in Indices, ws \in BOOLEAN : ZRevrange(start, stop, ws)
    \/ \E ws \in BOOLEAN : ZFront(ws)
    \/ \E ws \in BOOLEAN : ZBack(ws)
    \/ \E b \in BOOLEAN : SetWithscores(b)

SpecZRead == InitZSet /\ [][NextZRead]_vars

\* ------------------------------------------------ sorted set: properties
ReadOps == {"range", "revrange", "front", "back"}
WireOf(ps) == {encode(codec, ps[i][1]) : i \in 1..Len(ps)}

\* C1: popping count members (1 <= count <= N) from the front removes exactly
\* count members and returns the count lowest (member, score) pairs in
\* ascending score order; both the ZPOPMIN path and the range-and-remove
\* path give this same result and this same remaining set.
C1_PopFront ==
    (last.op = "unshift" /\ last.args[1] >= 1 /\ last.args[1] <= Card(last.before)) =>
        LET count == last.args[1]
            ret == last.ret.items
        IN  /\ Card(zset) = Card(last.before) - count
            /\ Len(ret) = count
            /\ \A i \in 1..Len(ret) :
                   /\ encode(codec, ret[i][1]) \in DOMAIN last.before
                   /\ last.before[encode(codec, ret[i][1])] = ret[i][2]
            /\ \A i \in 1..Len(ret), j \in 1..Len(ret) :
                   i < j => ret[i][2] <= ret[j][2] /\ ret[i][1] # ret[j][1]
            /\ \A m \in DOMAIN zset, i \in 1..Len(ret) : ret[i][2] <= zset[m]
            /\ zset = [m \in DOMAIN last.before \ WireOf(ret) |-> last.before[m]]
            /\ \A v \in Versions :
                   ZSet_unshift(last.before, codec, last.inst, v, count)
                       = [ret |-> ret, zset |-> zset]

C1_Witness ==
    /\ last.op = "unshift"
    /\ last.args[1] = 2
    /\ Card(last.before) = 3
    /\ VersionLess(version, <<5, 0, 0>>)
    /\ codec = "JSON"

\* C3: the withscores argument of range, revrange, front and back decides
\* the shape of the result whatever the instance flag is: pairs when it is
\* True, bare members when it is False.
C3_Override == last.op \in ReadOps => last.ret.scored = last.ws

\* C5: add({m: s}) directly followed by remove(m) leaves the cardinality at
\* its value before the add, whatever the prior content.
C5_AddRemoveAny ==
    (last.op = "remove" /\ last.added) => Card(zset) = Card(last.before)

\* C5 amended: add({m: s}) directly followed by remove(m) leaves the
\* cardinality at its value before the add when m was not a member before
\* the add.
C5_AddRemoveFresh ==
    (last.op = "remove" /\ last.added
        /\ encode(codec, last.args[1]) \notin DOMAIN last.before)
    => Card(zset) = Card(last.before)

C5_Witness ==
    /\ last.op = "remove"
    /\ last.added
    /\ encode(codec, last.args[1]) \notin DOMAIN last.before
    /\ Card(last.before) >= 1
    /\ codec = "JSON"

\* C9: unshift(0) and pop(0) remove no member and return an empty sequence
\* on either server version.
C9_PopZero ==
    (last.op \in {"unshift", "pop"} /\ last.args[1] = 0) =>
        zset = last.before /\ last.ret.items = <<>>

\* --------------------------------- sorted set, two callers of ZSet.unshift
\* Each statement of ZSet.unshift that talks to the server is one step.
CQuiet == UNCHANGED <<regVars, srvVars, withscores, sset, hash, list, deque, last>>

\* the set is filled by add before the two callers start
CPopulate(mapping) ==
    /\ \A p \in Callers : pc[p] = "idle"
    /\ zset' = ZSet_add(zset, codec, mapping)
    /\ UNCHANGED cVars
    /\ CQuiet

UCall(p, count) ==
    /\ pc[p] = "idle"
    /\ cnt' = [cnt EXCEPT ![p] = count]
    /\ pc' = [pc EXCEPT ![p] = "version"]
    /\ UNCHANGED <<zset, front, idx, uret, snap>>
    /\ CQuiet

\* if redis_version(self._client) < StrictVersion("5.0.0")
UVersion(p) ==
    /\ pc[p] = "version"
    /\ pc' = [pc EXCEPT ![p] =
                 IF VersionLess(version, <<5, 0, 0>>) THEN "range" ELSE "zpopmin"]
    /\ UNCHANGED <<zset, cnt, front, idx, uret, snap>>
    /\ CQuiet

\* front = self.range(0, count-1, withscores = True)
URange(p) ==
    /\ pc[p] = "range"
    /\ front' = [front EXCEPT ![p] =
                    ZSet_range(zset, codec, withscores, 0, cnt[p] - 1, TRUE).items]
    /\ snap' = [snap EXCEPT ![p] = zset]
    /\ idx' = [idx EXCEPT ![p] = 1]
    /\ pc' = [pc EXCEPT ![p] = "remove"]
    /\ UNCHANGED <<zset, cnt, uret>>
    /\ CQuiet

URemove_lowest(p) ==
    /\ pc[p] = "remove"
    /\ idx[p] <= Len(front[p])
    /\ zset' = zpopmin(zset, 1).zset
    /\ idx' = [idx EXCEPT ![p] = idx[p] + 1]
    /\ UNCHANGED <<pc, cnt, front, uret, snap>>
    /\ CQuiet

\* for i in front: self.remove(i[0])
URemove(p) ==
    /\ pc[p] = "remove"
    /\ idx[p] <= Len(front[p])
    /\ zset' = ZSet_remove(zset, codec, front[p][idx[p]][1])
    /\ idx' = [idx EXCEPT ![p] = idx[p] + 1]
    /\ UNCHANGED <<pc, cnt, front, uret, snap>>
    /\ CQuiet

\* return front
UReturn(p) ==
    /\ pc[p] = "remove"
    /\ idx[p] > Len(front[p])
    /\ uret' = [uret EXCEPT ![p] = front[p]]
    /\ pc' = [pc EXCEPT ![p] = "done"]
    /\ UNCHANGED <<zset, cnt, front, idx, snap>>
    /\ CQuiet

\* return [(decode(i[0]), i[1]) for i in self._client.zpopmin(self._key, count=count)]
UPopMin(p) ==
    /\ pc[p] = "zpopmin"
    /\ LET r == zpopmin(zset, cnt[p])
       IN  /\ zset' = r.zset
           /\ uret' = [uret EXCEPT ![p] = DecodePairs(codec, r.ret)]
    /\ snap' = [snap EXCEPT ![p] = zset]
    /\ pc' = [pc EXCEPT ![p] = "done"]
    /\ UNCHANGED <<cnt, front, idx>>
    /\ CQuiet

InitConc ==
    /\ RegIdle /\ ZIdle /\ CIdle /\ OtherIdle
    /\ version \in Versions
    /\ codec \in Codecs
    /\ last = NoRec

NextConc ==
    \/ \E mapping \in Mappings : CPopulate(mapping)
    \/ \E p \in Callers, count \in 1..2 : UCall(p, count)
    \/ \E p \in Callers : UVersion(p)
    \/ \E p \in Callers : URange(p)
    \/ \E p \in Callers : URemove(p)
    \/ \E p \in Callers : UReturn(p)
    \/ \E p \in Callers : UPopMin(p)

SpecConc == InitConc /\ [][NextConc]_vars

BothDone == \A p \in Callers : pc[p] = "done" /\ cnt[p] = 1

\* C2: on a server older than 5.0.0, when two callers of unshift(1) on a set
\* of at least two members both read the range before either removes, both
\* are returned the same member and the cardinality drops by one only.
C2_DoublePop ==
    (/\ VersionLess(version, <<5, 0, 0>>)
     /\ BothDone
     /\ snap[1] = snap[2]
     /\ Card(snap[1]) >= 2)
    => /\ Len(uret[1]) = 1
       /\ uret[1] = uret[2]
       /\ Card(zset) = Card(snap[1]) - 1

C2_Witness ==
    /\ VersionLess(version, <<5, 0, 0>>)
    /\ BothDone
    /\ snap[1] = snap[2]
    /\ Card(snap[1]) >= 2
    /\ uret[1] = uret[2]
    /\ Len(uret[1]) = 1
    /\ Card(zset) = Card(snap[1]) - 1

\* -------------------------------------------------------------------- Hash
\* fields are plain strings; the encoded form of a field is a field too
Fields == (1..MaxField) \cup {encode("JSON", f) : f \in 1..MaxField}
HMappings == UNION {[S -> Values] : S \in SUBSET (1..MaxField) \ {{}}}

hget(h, f) == IF f \in DOMAIN h THEN h[f] ELSE None
hset(h, f, w) == [g \in DOMAIN h \cup {f} |-> IF g = f THEN w ELSE h[g]]
hdel(h, f) == [g \in DOMAIN h \ {f} |-> h[g]]
hexists(h, f) == f \in DOMAIN h

Hash_get(h, c, field) == hget(h, field)

Hash_set(h, c, field, value) == hset(h, field, encode(c, value))

Hash_getall(h, c) == [f \in DOMAIN h |-> decode(c, h[f])]

Hash_contains(h, key) == hexists(h, key)

Hash_keys(h) == DOMAIN h

Hash_values(h, c) == {decode(c, h[f]) : f \in DOMAIN h}

Hash_delete(h, c, field) == hdel(h, encode(c, field))

Hash_update(h, c, mapping) ==
    [g \in DOMAIN h \cup DOMAIN mapping |->
        IF g \in DOMAIN mapping THEN encode(c, mapping[g]) ELSE h[g]]

\* wrote: the value the directly preceding set(field, value) gave this field
HRec(op, args, ret) ==
    [op |-> op, args |-> args, ret |-> ret, before |-> hash, wrote |-> None]

HWrote(field) ==
    IF last.op = "set" /\ last.args[1] = field THEN last.args[2] ELSE None

HQuiet == UNCHANGED <<regVars, srvVars, zVars, sset, list, deque, cVars>>

HSet(field, value) ==
    /\ hash' = Hash_set(hash, codec, field, value)
    /\ last' = HRec("set", <<field, value>>, None)
    /\ HQuiet

HGet(field) ==
    /\ last' = [HRec("get", <<field>>, Hash_get(hash, codec, field))
                   EXCEPT !.wrote = HWrote(field)]
    /\ UNCHANGED hash
    /\ HQuiet

HGetall(field) ==
    /\ last' = [HRec("getall", <<field>>, Hash_getall(hash, codec))
                   EXCEPT !.wrote = HWrote(field)]
    /\ UNCHANGED hash
    /\ HQuiet

HContains(field) ==
    /\ last' = HRec("contains", <<field>>, Hash_contains(hash, field))
    /\ UNCHANGED hash
    /\ HQuiet

HKeys ==
    /\ last' = HRec("keys", <<>>, Hash_keys(hash))
    /\ UNCHANGED hash
    /\ HQuiet

HValues ==
    /\ last' = HRec("values", <<>>, Hash_values(hash, codec))
    /\ UNCHANGED hash
    /\ HQuiet

HDelete(field) ==
    /\ hash' = Hash_delete(hash, codec, field)
    /\ last' = HRec("delete", <<field>>, None)
    /\ HQuiet

HUpdate(mapping) ==
    /\ hash' = Hash_update(hash, codec, mapping)
    /\ last' = HRec("update", <<>>, None)
    /\ HQuiet

InitHash ==
    /\ RegIdle /\ ZIdle /\ CIdle /\ OtherIdle
    /\ version \in Versions
    /\ codec \in Codecs
    /\ last = NoRec

NextHash ==
    \/ \E field \in Fields, value \in Values : HSet(field, value)
    \/ \E field \in Fields : HGet(field)
    \/ \E field \in Fields : HGetall(field)
    \/ \E field \in Fields : HContains(field)
    \/ HKeys
    \/ HValues
    \/ \E field \in Fields : HDelete(field)
    \/ \E mapping \in HMappings : HUpdate(mapping)

SpecHash == InitHash /\ [][NextHash]_vars

\* C4: a value written through a wrapper and read back through the same
\* wrapper is the value written, for every codec whose decode inverts its
\* encode; stated here for the Hash pairs of the claim: set(f, v) then
\* get(f), and set(f, v) then getall()[f].
C4_RoundTrip ==
    /\ (last.op = "get" /\ last.wrote # None) => last.ret = last.wrote
    /\ (last.op = "getall" /\ last.wrote # None) => last.ret[last.args[1]] = last.wrote

\* C6: after delete(f) the field is gone, whatever the codec: contains(f) is
\* false, f is not in keys(), and every other field keeps its value.
C6_Delete ==
    last.op = "delete" =>
        /\ ~Hash_contains(hash, last.args[1])
        /\ last.args[1] \notin Hash_keys(hash)
        /\ \A g \in DOMAIN last.before \ {last.args[1]} :
               g \in DOMAIN hash /\ hash[g] = last.before[g]

\* --------------------------------------------------------------------- Set
Ok(v) == [exc |-> "", val |-> v]
Raise(e) == [exc |-> e, val |-> None]

\* redis-py sismember(name, value): both positional arguments are required
sismember(s, args) ==
    IF Len(args) # 2 THEN Raise("TypeError") ELSE Ok(args[2] \in s)

Set_contains(s, c, item) ==
    IF DecodeRaises(c, item) THEN Raise("JSONDecodeError")
    ELSE sismember(s, <<decode(c, item)>>)

Set_members(s, c) == {decode(c, w) : w \in s}

Set_add(s, c, member) == s \cup {encode(c, member)}

Set_remove(s, c, member) == s \ {encode(c, member)}

\* SRANDMEMBER gives None on an empty set, and the decoder is applied to it
Set_randmember(c, w) == IF DecodeRaises(c, w) THEN Raise("TypeError") ELSE Ok(decode(c, w))

SRec(op, args, ret) == [op |-> op, args |-> args, ret |-> ret, before |-> sset]

SQuiet == UNCHANGED <<regVars, srvVars, zVars, hash, list, deque, cVars>>

SAdd(member) ==
    /\ sset' = Set_add(sset, codec, member)
    /\ last' = SRec("add", <<member>>, Ok(None))
    /\ SQuiet

SRemove(member) ==
    /\ sset' = Set_remove(sset, codec, member)
    /\ last' = SRec("remove", <<member>>, Ok(None))
    /\ SQuiet

SContains(item) ==
    /\ last' = SRec("contains", <<item>>, Set_contains(sset, codec, item))
    /\ UNCHANGED sset
    /\ SQuiet

SMembers ==
    /\ last' = SRec("members", <<>>, Ok(Set_members(sset, codec)))
    /\ UNCHANGED sset
    /\ SQuiet

SCardinality ==
    /\ last' = SRec("cardinality", <<>>, Ok(Cardinality(sset)))
    /\ UNCHANGED sset
    /\ SQuiet

SRandmember ==
    /\ \E w \in (IF sset = {} THEN {None} ELSE sset) :
           last' = SRec("randmember", <<>>, Set_randmember(codec, w))
    /\ UNCHANGED sset
    /\ SQuiet

InitSet ==
    /\ RegIdle /\ ZIdle /\ CIdle /\ OtherIdle
    /\ version \in Versions
    /\ codec \in Codecs
    /\ last = NoRec

NextSet ==
    \/ \E member \in Values : SAdd(member)
    \/ \E member \in Values : SRemove(member)
    \/ \E item \in Values : SContains(item)
    \/ SMembers
    \/ SCardinality
    \/ SRandmember

SpecSet == InitSet /\ [][NextSet]_vars

\* C7: the membership check raises no error, changes no state and tells
\* whether the member is in the set: true after add(m), false after remove(m).
C7_Membership ==
    last.op = "contains" =>
        /\ last.ret.exc = ""
        /\ last.ret.val = (encode(codec, last.args[1]) \in sset)
        /\ sset = last.before

\* -------------------------------------------------------------------- List
lpush(l, w) == <<w>> \o l
rpush(l, w) == Append(l, w)
lpop(l) == IF l = <<>> THEN [ret |-> None, list |-> l] ELSE [ret |-> Head(l), list |-> Tail(l)]
rpop(l) ==
    IF l = <<>> THEN [ret |-> None, list |-> l]
    ELSE [ret |-> l[Len(l)], list |-> SubSeq(l, 1, Len(l) - 1)]

List_shift(l, c, item) == lpush(l, encode(c, item))

List_unshift(l, c) ==
    LET r == lpop(l)
    IN  [list |-> r.list,
         ret |-> IF DecodeRaises(c, r.ret) THEN Raise("TypeError") ELSE Ok(decode(c, r.ret))]

List_push_left(l, c, item) == lpush(l, encode(c, item))

List_push(l, c, item) == rpush(l, encode(c, item))

List_pop(l, c) ==
    LET r == rpop(l)
    IN  [list |-> r.list,
         ret |-> IF DecodeRaises(c, r.ret) THEN Raise("TypeError") ELSE Ok(decode(c, r.ret))]

List_len(l) == Len(l)

\* expect: what the reference deque returns for the same call
LRec(op, args, ret, expect) ==
    [op |-> op, args |-> args, ret |-> ret, before |-> list, expect |-> expect]

LQuiet == UNCHANGED <<regVars, srvVars, zVars, sset, hash, cVars>>

LPush(item) ==
    /\ Len(list) < MaxList
    /\ list' = List_push(list, codec, item)
    /\ deque' = Append(deque, item)
    /\ last' = LRec("push", <<item>>, Ok(None), None)
    /\ LQuiet

LShift(item) ==
    /\ Len(list) < MaxList
    /\ list' = List_shift(list, codec, item)
    /\ deque' = <<item>> \o deque
    /\ last' = LRec("shift", <<item>>, Ok(None), None)
    /\ LQuiet

LPop ==
    LET r == List_pop(list, codec)
    IN  /\ list' = r.list
        /\ deque' = IF deque = <<>> THEN deque ELSE SubSeq(deque, 1, Len(deque) - 1)
        /\ last' = LRec("pop", <<>>, r.ret,
                        IF deque = <<>> THEN None ELSE deque[Len(deque)])
        /\ LQuiet

LUnshift ==
    LET r == List_unshift(list, codec)
    IN  /\ list' = r.list
        /\ deque' = IF deque = <<>> THEN deque ELSE Tail(deque)
        /\ last' = LRec("unshift", <<>>, r.ret,
                        IF deque = <<>> THEN None ELSE Head(deque))
        /\ LQuiet

LLen ==
    /\ last' = LRec("len", <<>>, Ok(List_len(list)), Len(deque))
    /\ UNCHANGED <<list, deque>>
    /\ LQuiet

InitList ==
    /\ RegIdle /\ ZIdle /\ CIdle /\ OtherIdle
    /\ version \in Versions
    /\ codec \in Codecs
    /\ last = NoRec

NextList ==
    \/ \E item \in Values : LPush(item)
    \/ \E item \in Values : LShift(item)
    \/ LPop
    \/ LUnshift
    \/ LLen

SpecList == InitList /\ [][NextList]_vars

\* C10: with the identity codec the remote list equals the reference deque
\* after any sequence of push, shift, pop and unshift: each pop returns and
\* removes the element at its end, and a pop on an empty list returns None
\* and leaves the list empty.
C10_Deque ==
    codec = "NoOp" =>
        /\ list = deque
        /\ last.op \in {"pop", "unshift"} =>
               /\ last.ret = Ok(last.expect)
               /\ (last.before = <<>> => last.ret.val = None /\ list = <<>>)
               /\ (last.before # <<>> => Len(list) = Len(last.before) - 1)
        /\ last.op = "pop" /\ last.before # <<>> =>
               /\ last.ret.val = last.before[Len(last.before)]
               /\ list = SubSeq(last.before, 1, Len(last.before) - 1)
        /\ last.op = "unshift" /\ last.before # <<>> =>
               /\ last.ret.val = Head(last.before)
               /\ list = Tail(last.before)

C10_Witness ==
    /\ codec = "NoOp"
    /\ last.op = "unshift"
    /\ Len(last.before) = MaxList
    /\ last.before[1] # last.before[Len(last.before)]
    /\ last.ret.val = last.before[1]

\* ---------------------------------------------------- registry, construction
NoClient == "None"
Clients == {"client"}
Kinds == {"ZSet", "Set", "Hash", "List"}

\* initialize(client_instance)
initialize(client_instance) == client_instance

\* set_encoding(encoder=None, decoder=None): None selects the no-op classes
set_encoding(enc) == IF enc = "None" THEN "NoOp" ELSE enc

\* `a or b` on client handles
OrElse(a, b) == IF a # NoClient THEN a ELSE b

RedisType_init_unchecked(kind, use_client, codec_class, global, dflt) ==
    [exc |-> "",
     obj |-> [kind |-> kind, client |-> OrElse(use_client, global),
              codec |-> IF codec_class # "None" THEN codec_class ELSE dflt]]

\* RedisType.__init__ (ZSet.__init__ runs it first): the wrapper, or the
\* exception that ends the construction
RedisType_init(kind, use_client, codec_class, global, dflt) ==
    LET client == OrElse(use_client, global)
        obj == [kind |-> kind, client |-> client,
                codec |-> IF codec_class # "None" THEN codec_class ELSE dflt]
    IN  IF client = NoClient
        THEN [exc |-> "ConfiurationError", obj |-> obj]
        ELSE [exc |-> "", obj |-> obj]

RRec(op, args, exc) ==
    [op |-> op, args |-> args, exc |-> exc, global |-> redis_client,
     called |-> initialized, instances |-> instances, issued |-> issued]

RQuiet == UNCHANGED <<srvVars, zVars, sset, hash, list, deque, cVars>>

Initialize(client_instance) ==
    /\ redis_client' = initialize(client_instance)
    /\ initialized' = TRUE
    /\ last' = RRec("initialize", <<client_instance>>, "")
    /\ UNCHANGED <<default_codec, instances, issued>>
    /\ RQuiet

SetEncoding(enc) ==
    /\ default_codec' = set_encoding(enc)
    /\ last' = RRec("set_encoding", <<enc>>, "")
    /\ UNCHANGED <<redis_client, initialized, instances, issued>>
    /\ RQuiet

\* ping(): redis_client.ping() on the module global
Ping ==
    /\ issued < MaxIssued
    /\ IF redis_client = NoClient
       THEN /\ last' = RRec("ping", <<>>, "AttributeError")
            /\ UNCHANGED issued
       ELSE /\ last' = RRec("ping", <<>>, "")
            /\ issued' = issued + 1
    /\ UNCHANGED <<redis_client, initialized, default_codec, instances>>
    /\ RQuiet

Construct(kind, use_client, codec_class) ==
    LET r == RedisType_init(kind, use_client, codec_class, redis_client, default_codec)
    IN  /\ r.exc = "" => Cardinality(instances \cup {r.obj}) <= MaxInst
        /\ instances' = IF r.exc = "" THEN instances \cup {r.obj} ELSE instances
        /\ last' = RRec("construct", <<kind, use_client, codec_class>>, r.exc)
        /\ UNCHANGED <<redis_client, initialized, default_codec, issued>>
        /\ RQuiet

InitReg ==
    /\ redis_client = NoClient
    /\ initialized = FALSE
    /\ default_codec = "NoOp"
    /\ instances = {}
    /\ issued = 0
    /\ ZIdle /\ CIdle /\ OtherIdle
    /\ version \in Versions
    /\ codec = "NoOp"
    /\ last = NoRec

NextReg ==
    \/ \E client_instance \in Clients \cup {NoClient} : Initialize(client_instance)
    \/ \E enc \in Codecs \cup {"None"} : SetEncoding(enc)
    \/ Ping
    \/ \E kind \in Kinds, use_client \in Clients \cup {NoClient},
          codec_class \in Codecs \cup {"None"} : Construct(kind, use_client, codec_class)

SpecReg == InitReg /\ [][NextReg]_vars

\* C8: constructing any wrapper without an explicit client handle while
\* initialize was never called raises the configuration error, yields no
\* wrapper instance and issues no command.
C8_NotConfigured ==
    (last.op = "construct" /\ last.args[2] = NoClient /\ ~last.called) =>
        /\ last.exc = "ConfiurationError"
        /\ instances = last.instances
        /\ issued = last.issued
        /\ \A w \in instances : w.client # NoClient

C8_Witness ==
    /\ last.op = "construct"
    /\ last.args[2] = NoClient
    /\ ~last.called
    /\ last.exc = "ConfiurationError"
    /\ last.args[1] = "ZSet"
    /\ instances # {}

====
